---- MODULE Spec2Model ----
(***************************************************************************)
(* Access-log field resolution (uvicorn/logging.py: AccessLogFields),      *)
(* status rendering (uvicorn/logging.py: AccessFormatter) and request      *)
(* timing (uvicorn/protocols/utils.py: RequestResponseTiming).             *)
(*                                                                         *)
(* Python values are tagged records: None, str (a sequence of one-letter   *)
(* strings), bytes (a sequence of code points), int, float (a number of    *)
(* clock ticks), tuple.  A call either returns a value or raises.          *)
(***************************************************************************)
EXTENDS Integers, Sequences, FiniteSets, TLC

VARIABLES
    scope,              \* AccessLogFields.scope: the request metadata (a dict)
    timing,             \* AccessLogFields.timing: the RequestResponseTiming
    status_code,        \* AccessLogFields.status_code
    response_headers,   \* AccessLogFields.response_headers (a dict)
    _response_length,   \* AccessLogFields._response_length
    _request_headers,   \* AccessLogFields._request_headers (lazy cache)
    clock,              \* the reading time.monotonic() gives now, in ticks
    nticks,             \* how often the clock has advanced
    last,               \* the last call made on the objects and its outcome
    marked,             \* history: per mark, the clock reading of its last call
    sent,               \* history: the bytes of all body chunks delivered
    order,              \* history: the marks called, the latest call last
    use_colors          \* ColourizedFormatter.use_colors

vars == <<scope, timing, status_code, response_headers, _response_length,
          _request_headers, clock, nticks, last, marked, sent, order,
          use_colors>>

fields == <<status_code, response_headers, _response_length>>

-----------------------------------------------------------------------------
(* Bounds of the model. *)

\* the clock advances at most this often in one behaviour
MaxTicks == 2

\* clock ticks per microsecond: the clock is finer than the microsecond
TicksPerMicro == 4

\* the running body length is followed up to this many bytes
MaxLength == 2

\* the status codes rendered go from -1 up to this one
MaxStatus == 600

\* 1_000_000 microseconds per second
MicrosPerSecond == 1000000

TicksPerSecond == TicksPerMicro * MicrosPerSecond

\* what the clock can advance by: under a microsecond, or a whole second
ClockSteps == {TicksPerMicro - 1, TicksPerSecond}

-----------------------------------------------------------------------------
(* Python values and outcomes. *)

None == [t |-> "None"]
PyStr(s) == [t |-> "str", v |-> s]
PyBytes(b) == [t |-> "bytes", v |-> b]
PyInt(n) == [t |-> "int", v |-> n]
PyFloat(x) == [t |-> "float", v |-> x]
PyTuple(xs) == [t |-> "tuple", v |-> xs]

Return(v) == [kind |-> "return", val |-> v]
Raise(e, m) == [kind |-> "raise", exc |-> e, msg |-> m]

\* the printable ASCII characters, code points 32..126 (96 by its name)
Printable ==
    <<" ", "!", "\"", "#", "$", "%", "&", "'", "(", ")", "*", "+", ",", "-",
      ".", "/", "0", "1", "2", "3", "4", "5", "6", "7", "8", "9", ":", ";",
      "<", "=", ">", "?", "@", "A", "B", "C", "D", "E", "F", "G", "H", "I",
      "J", "K", "L", "M", "N", "O", "P", "Q", "R", "S", "T", "U", "V", "W",
      "X", "Y", "Z", "[", "\\", "]", "^", "_", "grave", "a", "b", "c", "d", "e",
      "f", "g", "h", "i", "j", "k", "l", "m", "n", "o", "p", "q", "r", "s",
      "t", "u", "v", "w", "x", "y", "z", "{", "|", "}", "~">>

Chr(b) == Printable[b - 31]
Ord(c) == 31 + CHOOSE i \in 1..Len(Printable) : Printable[i] = c

\* bytes.decode, codec ascii, on bytes below 128
decode(bs) == [i \in 1..Len(bs) |-> Chr(bs[i])]

\* a bytes literal
encode(s) == [i \in 1..Len(s) |-> Ord(s[i])]

\* str.lower()
lower_char(c) ==
    IF Ord(c) >= 65 /\ Ord(c) <= 90 THEN Chr(Ord(c) + 32) ELSE c
lower(s) == [i \in 1..Len(s) |-> lower_char(s[i])]

\* str.startswith / str.endswith
startswith(s, p) == Len(s) >= Len(p) /\ SubSeq(s, 1, Len(p)) = p
endswith(s, p) ==
    Len(s) >= Len(p) /\ SubSeq(s, Len(s) - Len(p) + 1, Len(s)) = p

\* the slice key[1:-2]
slice_1_m2(s) == SubSeq(s, 2, Len(s) - 2)

\* str(n) of an int
RECURSIVE digits(_)
digits(n) ==
    IF n < 10 THEN <<Chr(48 + n)>>
    ELSE digits(n \div 10) \o <<Chr(48 + (n % 10))>>
int_str(n) == IF n < 0 THEN <<"-">> \o digits(0 - n) ELSE digits(n)

\* int(x) of a quotient a / b, b > 0: truncation towards zero
trunc_div(a, b) == IF a >= 0 THEN a \div b ELSE 0 - ((0 - a) \div b)

\* a / b, b > 0, rounded to the nearest integer, a tie to the even one
round_div(a, b) ==
    LET m == IF a >= 0 THEN a ELSE 0 - a
        q == m \div b
        r == m % b
        n == IF 2 * r > b \/ (2 * r = b /\ q % 2 = 1) THEN q + 1 ELSE q
    IN  IF a >= 0 THEN n ELSE 0 - n

\* int_scaled, rounding to the nearest integer
int_scaled_rounding(x, k) == round_div(x, TicksPerSecond \div k)

\* int(x * k) of a float of x ticks, k = 1 or k = 1_000_000:
\* x / TicksPerSecond * k is x / (TicksPerSecond / k)
int_scaled(x, k) == trunc_div(x, TicksPerSecond \div k)

\* str.replace: a double quote becomes a backslash and a double quote
RECURSIVE replace_quote(_)
replace_quote(s) ==
    IF s = <<>> THEN <<>>
    ELSE (IF Head(s) = "\"" THEN <<"\\", "\"">> ELSE <<Head(s)>>)
         \o replace_quote(Tail(s))

-----------------------------------------------------------------------------
(* A dict: its items in insertion order, the keys distinct. *)

dict_has(d, k) == \E i \in 1..Len(d) : d[i][1] = k

\* d[k] = v
dict_set(d, k, v) ==
    IF dict_has(d, k)
    THEN [i \in 1..Len(d) |-> IF d[i][1] = k THEN <<k, v>> ELSE d[i]]
    ELSE Append(d, <<k, v>>)

\* d.get(k)
dict_get(d, k) ==
    IF dict_has(d, k)
    THEN PyStr(d[CHOOSE i \in 1..Len(d) : d[i][1] = k][2])
    ELSE None

\* the dict comprehension {k.decode(): v.decode() for k, v in pairs}
RECURSIVE decoded_dict(_)
decoded_dict(pairs) ==
    IF pairs = <<>> THEN <<>>
    ELSE LET n == Len(pairs)
         IN  dict_set(decoded_dict(SubSeq(pairs, 1, n - 1)),
                      decode(pairs[n][1].v), decode(pairs[n][2].v))

-----------------------------------------------------------------------------
(* uvicorn/protocols/utils.py: RequestResponseTiming *)

\* RequestResponseTiming.__init__
timing_init ==
    [_request_start_time |-> None, _request_end_time |-> None,
     _response_start_time |-> None, _response_end_time |-> None]

\* time.monotonic()
monotonic(now) == PyFloat(now)

request_started(t, now) == [t EXCEPT !._request_start_time = monotonic(now)]
\* request_ended, writing the field of request_started
request_ended_wrong_field(t, now) ==
    [t EXCEPT !._request_start_time = monotonic(now)]
request_ended(t, now) == [t EXCEPT !._request_end_time = monotonic(now)]
response_started(t, now) == [t EXCEPT !._response_start_time = monotonic(now)]
response_ended(t, now) == [t EXCEPT !._response_end_time = monotonic(now)]

request_start_time(t) ==
    IF t._request_start_time = None
    THEN Raise("ValueError", "request_started() was not called")
    ELSE Return(t._request_start_time)

request_end_time(t) ==
    IF t._request_end_time = None
    THEN Raise("ValueError", "request_ended() was not called")
    ELSE Return(t._request_end_time)

response_start_time(t) ==
    IF t._response_start_time = None
    THEN Raise("ValueError", "response_started() was not called")
    ELSE Return(t._response_start_time)

response_end_time(t) ==
    IF t._response_end_time = None
    THEN Raise("ValueError", "response_ended() was not called")
    ELSE Return(t._response_end_time)

\* a - b of two property reads, a read first; a raise propagates
float_sub(a, b) ==
    IF a.kind = "raise" THEN a
    ELSE IF b.kind = "raise" THEN b
    ELSE Return(PyFloat(a.val.v - b.val.v))

request_duration_seconds(t) ==
    float_sub(request_end_time(t), request_start_time(t))
\* response_duration_seconds, measured from the start of the request
response_duration_from_request(t) ==
    float_sub(response_end_time(t), request_start_time(t))
response_duration_seconds(t) ==
    float_sub(response_end_time(t), response_start_time(t))
\* total_duration_seconds, the end taken from the start
total_duration_reversed(t) ==
    float_sub(request_start_time(t), response_end_time(t))
total_duration_seconds(t) ==
    float_sub(response_end_time(t), request_start_time(t))

-----------------------------------------------------------------------------
(* uvicorn/logging.py: AccessLogFields *)

PyDict(d) == [t |-> "dict", v |-> d]

DASH == <<"-">>

\* os.getpid()
getpid == 4242

\* the value of a handler that leaves the request-header cache alone
Ret(out) == [out |-> out, rh |-> _request_headers]

\* the property request_headers: the dict, built on first use
request_headers ==
    IF _request_headers = None
    THEN PyDict(decoded_dict(scope.headers))
    ELSE _request_headers

\* a handler that reads the property request_headers and leaves an empty
\* dict in the cache
RetRH_empty_cache(out) == [out |-> out, rh |-> PyDict(<<>>)]

\* a handler that reads the property request_headers
RetRH(out) == [out |-> out, rh |-> request_headers]

\* the property duration
duration == total_duration_seconds(timing)

\* AccessLogFields.__init__ and on_asgi_message: the response state
fields_init ==
    [status_code |-> None, response_headers |-> <<>>, _response_length |-> 0]

\* message.get(key, default)
message_get(message, key, default) ==
    IF key \in DOMAIN message THEN message[key] ELSE default

\* on_asgi_message, a body chunk replacing the total
on_asgi_message_last_chunk(message) ==
    IF message.type = "http.response.start"
    THEN [status_code |-> message.status,
          response_headers |->
              decoded_dict(message_get(message, "headers", <<>>)),
          _response_length |-> _response_length]
    ELSE IF message.type = "http.response.body"
    THEN [status_code |-> status_code,
          response_headers |-> response_headers,
          _response_length |->
              Len(message_get(message, "body", PyStr(<<>>)).v)]
    ELSE [status_code |-> status_code,
          response_headers |-> response_headers,
          _response_length |-> _response_length]

\* on_asgi_message, a start event setting the total back to zero
on_asgi_message_reset(message) ==
    IF message.type = "http.response.start"
    THEN [status_code |-> message.status,
          response_headers |->
              decoded_dict(message_get(message, "headers", <<>>)),
          _response_length |-> 0]
    ELSE IF message.type = "http.response.body"
    THEN [status_code |-> status_code,
          response_headers |-> response_headers,
          _response_length |->
              _response_length
              + Len(message_get(message, "body", PyStr(<<>>)).v)]
    ELSE [status_code |-> status_code,
          response_headers |-> response_headers,
          _response_length |-> _response_length]

\* on_asgi_message, the first start event kept
on_asgi_message_first_start(message) ==
    IF message.type = "http.response.start" /\ status_code = None
    THEN [status_code |-> message.status,
          response_headers |->
              decoded_dict(message_get(message, "headers", <<>>)),
          _response_length |-> _response_length]
    ELSE IF message.type = "http.response.body"
    THEN [status_code |-> status_code,
          response_headers |-> response_headers,
          _response_length |->
              _response_length
              + Len(message_get(message, "body", PyStr(<<>>)).v)]
    ELSE [status_code |-> status_code,
          response_headers |-> response_headers,
          _response_length |-> _response_length]

on_asgi_message(message) ==
    IF message.type = "http.response.start"
    THEN [status_code |-> message.status,
          response_headers |->
              decoded_dict(message_get(message, "headers", <<>>)),
          _response_length |-> _response_length]
    ELSE IF message.type = "http.response.body"
    THEN [status_code |-> status_code,
          response_headers |-> response_headers,
          _response_length |->
              _response_length
              + Len(message_get(message, "body", PyStr(<<>>)).v)]
    ELSE [status_code |-> status_code,
          response_headers |-> response_headers,
          _response_length |-> _response_length]

_request_header(key) == RetRH(Return(dict_get(request_headers.v, lower(key))))

_response_header(key) == Ret(Return(dict_get(response_headers, lower(key))))

\* _log_format_atom, a text passed on as it is
_log_format_atom_raw(val) ==
    IF val = None THEN PyStr(DASH) ELSE val

_log_format_atom(val) ==
    IF val = None THEN PyStr(DASH)
    ELSE IF val.t = "str" THEN PyStr(replace_quote(val.v))
    ELSE val

\* client[0]
subscript_0(x) ==
    IF x = None
    THEN Raise("TypeError", "'NoneType' object is not subscriptable")
    ELSE IF x.v = <<>>
    THEN Raise("IndexError", "tuple index out of range")
    ELSE Return(x.v[1])

\* str(x) of None or an int
py_str(x) == IF x = None THEN <<"N", "o", "n", "e">> ELSE int_str(x.v)

\* a or b, of two strings
str_or(a, b) == IF a = <<>> THEN b ELSE a

_remote_address ==
    Ret(subscript_0(IF "client" \in DOMAIN scope THEN scope.client
                    ELSE PyTuple(<<>>)))

_dash == Ret(Return(PyStr(DASH)))

_user_name == Ret(Return(None))

\* time.strftime: the wall-clock time between square brackets
date_of_the_request(wall) == Ret(Return(PyStr(<<"[">> \o wall \o <<"]">>)))

status_line ==
    Ret(Return(PyStr(scope.method.v \o <<" ">>
                     \o decode(scope.raw_path.v \o scope.query_string.v)
                     \o <<" ", "H", "T", "T", "P", "/">>
                     \o scope.http_version.v)))

request_method == Ret(Return(scope.method))

url_path == Ret(Return(PyStr(decode(scope.raw_path.v))))

query_string == Ret(Return(PyStr(decode(scope.query_string.v))))

protocol ==
    Ret(Return(PyStr(<<"H", "T", "T", "P", "/">> \o scope.http_version.v)))

status == Ret(Return(PyStr(str_or(py_str(status_code), DASH))))

response_length == Ret(Return(PyStr(int_str(_response_length))))

response_length_or_dash ==
    Ret(Return(PyStr(IF _response_length = 0 THEN DASH
                     ELSE int_str(_response_length))))

referer ==
    RetRH(Return(dict_get(request_headers.v,
                          <<"r", "e", "f", "e", "r", "e", "r">>)))

user_agent ==
    RetRH(Return(dict_get(request_headers.v,
                          <<"u", "s", "e", "r", "-", "a", "g", "e", "n", "t">>)))

\* request_time_seconds, a missing duration rendered as the dash
request_time_seconds_or_dash ==
    Ret(IF duration.kind = "raise" THEN Return(PyStr(DASH))
        ELSE Return(PyStr(int_str(int_scaled(duration.val.v, 1)))))

\* str(int(self.duration))
request_time_seconds ==
    Ret(IF duration.kind = "raise" THEN duration
        ELSE Return(PyStr(int_str(int_scaled(duration.val.v, 1)))))

\* str(int(self.duration * 1_000_000))
request_time_microseconds ==
    Ret(IF duration.kind = "raise" THEN duration
        ELSE Return(PyStr(int_str(
                 int_scaled(duration.val.v, MicrosPerSecond)))))

\* n as six digits
pad6(n) ==
    LET d == digits(n)
    IN  [i \in 1..(6 - Len(d)) |-> "0"] \o d

\* the format %.6f of x ticks as seconds
format_6f(x) ==
    LET m == round_div(x, TicksPerSecond \div MicrosPerSecond)
        a == IF m >= 0 THEN m ELSE 0 - m
    IN  (IF x < 0 THEN <<"-">> ELSE <<>>)
        \o digits(a \div MicrosPerSecond) \o <<".">>
        \o pad6(a % MicrosPerSecond)

request_time_decimal_seconds ==
    Ret(IF duration.kind = "raise" THEN duration
        ELSE Return(PyStr(format_6f(duration.val.v))))

process_id(pid) == Ret(Return(PyStr(<<"<">> \o int_str(pid) \o <<">">>)))

\* the registry, in registration order
HANDLERS ==
    << <<"h">>, <<"l">>, <<"u">>, <<"t">>, <<"r">>, <<"m">>, <<"U">>,
       <<"q">>, <<"H">>, <<"s">>, <<"B">>, <<"b">>, <<"f">>, <<"a">>,
       <<"T">>, <<"D">>, <<"L">>, <<"p">> >>

in_HANDLERS(key) == \E i \in 1..Len(HANDLERS) : HANDLERS[i] = key

\* HANDLERS[key](self); env is what the calls to the system give
call_handler(key, env) ==
    CASE key = <<"h">> -> _remote_address
      [] key = <<"l">> -> _dash
      [] key = <<"u">> -> _user_name
      [] key = <<"t">> -> date_of_the_request(env.wall)
      [] key = <<"r">> -> status_line
      [] key = <<"m">> -> request_method
      [] key = <<"U">> -> url_path
      [] key = <<"q">> -> query_string
      [] key = <<"H">> -> protocol
      [] key = <<"s">> -> status
      [] key = <<"B">> -> response_length
      [] key = <<"b">> -> response_length_or_dash
      [] key = <<"f">> -> referer
      [] key = <<"a">> -> user_agent
      [] key = <<"T">> -> request_time_seconds
      [] key = <<"D">> -> request_time_microseconds
      [] key = <<"L">> -> request_time_decimal_seconds
      [] key = <<"p">> -> process_id(env.pid)

\* retval, a key that matches no form raising KeyError, as a dict would
retval_strict(key, env) ==
    IF in_HANDLERS(key) THEN call_handler(key, env)
    ELSE IF startswith(key, <<"{">>)
    THEN IF endswith(key, <<"}", "i">>)
         THEN _request_header(slice_1_m2(key))
         ELSE IF endswith(key, <<"}", "o">>)
         THEN _response_header(slice_1_m2(key))
         ELSE IF endswith(key, <<"}", "e">>)
         THEN Ret(Raise("NotImplementedError", "WSGI environ not supported"))
         ELSE Ret(Raise("KeyError", ""))
    ELSE Ret(Raise("KeyError", ""))

\* retval, the environment form answered as a missing value
retval_environ_missing(key, env) ==
    IF in_HANDLERS(key) THEN call_handler(key, env)
    ELSE IF startswith(key, <<"{">>)
    THEN IF endswith(key, <<"}", "i">>)
         THEN _request_header(slice_1_m2(key))
         ELSE IF endswith(key, <<"}", "o">>)
         THEN _response_header(slice_1_m2(key))
         ELSE Ret(Return(None))
    ELSE Ret(Return(None))

\* the value looked up, before _log_format_atom
retval(key, env) ==
    IF in_HANDLERS(key) THEN call_handler(key, env)
    ELSE IF startswith(key, <<"{">>)
    THEN IF endswith(key, <<"}", "i">>)
         THEN _request_header(slice_1_m2(key))
         ELSE IF endswith(key, <<"}", "o">>)
         THEN _response_header(slice_1_m2(key))
         ELSE IF endswith(key, <<"}", "e">>)
         THEN Ret(Raise("NotImplementedError", "WSGI environ not supported"))
         ELSE Ret(Return(None))
    ELSE Ret(Return(None))

\* AccessLogFields.__getitem__: the outcome and the cache afterwards
getitem(key, env) ==
    LET r == retval(key, env)
    IN  [out |-> IF r.out.kind = "raise" THEN r.out
                 ELSE Return(_log_format_atom(r.out.val)),
         rh |-> r.rh]

\* AccessLogFields.__iter__: the keys the generator yields and how it ends.
\* The keys of response_headers are str, and str has no decode.
__iter__ ==
    LET request_keys ==
            [i \in 1..Len(scope.headers) |->
                lower(decode(scope.headers[i][1].v)) \o <<"i">>]
        header_keys ==
            [i \in 1..Len(response_headers) |-> response_headers[i][1]]
    IN  [yielded |-> HANDLERS \o request_keys,
         out |-> IF header_keys = <<>> THEN Return(None)
                 ELSE Raise("AttributeError",
                            "'str' object has no attribute 'decode'")]

\* __len__, the recorded response headers left out
len_without_response_headers ==
    Return(PyInt(Len(HANDLERS) + Len(scope.headers)))

\* AccessLogFields.__len__
__len__ ==
    LET headers == IF "headers" \in DOMAIN scope THEN scope.headers ELSE <<>>
    IN  Return(PyInt(Len(HANDLERS) + Len(headers) + Len(response_headers)))

-----------------------------------------------------------------------------
(* ColourizedFormatter and AccessFormatter. *)

PyBool(x) == [t |-> "bool", v |-> x]

\* ColourizedFormatter.__init__: the colour decision, made once
ColourizedFormatter_init(use_colors_arg, isatty) ==
    IF use_colors_arg \in {PyBool(TRUE), PyBool(FALSE)} THEN use_colors_arg.v
    ELSE isatty

\* http.HTTPStatus: the registered codes and their phrases
HTTPStatus ==
    <<
       <<100, <<"C", "o", "n", "t", "i", "n", "u", "e">>>>,
       <<101, <<"S", "w", "i", "t", "c", "h", "i", "n", "g", " ", "P", "r",
              "o", "t", "o", "c", "o", "l", "s">>>>,
       <<102, <<"P", "r", "o", "c", "e", "s", "s", "i", "n", "g">>>>,
       <<103, <<"E", "a", "r", "l", "y", " ", "H", "i", "n", "t", "s">>>>,
       <<200, <<"O", "K">>>>,
       <<201, <<"C", "r", "e", "a", "t", "e", "d">>>>,
       <<202, <<"A", "c", "c", "e", "p", "t", "e", "d">>>>,
       <<203, <<"N", "o", "n", "-", "A", "u", "t", "h", "o", "r", "i", "t",
              "a", "t", "i", "v", "e", " ", "I", "n", "f", "o", "r", "m",
              "a", "t", "i", "o", "n">>>>,
       <<204, <<"N", "o", " ", "C", "o", "n", "t", "e", "n", "t">>>>,
       <<205, <<"R", "e", "s", "e", "t", " ", "C", "o", "n", "t", "e", "n",
              "t">>>>,
       <<206, <<"P", "a", "r", "t", "i", "a", "l", " ", "C", "o", "n", "t",
              "e", "n", "t">>>>,
       <<207, <<"M", "u", "l", "t", "i", "-", "S", "t", "a", "t", "u",
              "s">>>>,
       <<208, <<"A", "l", "r", "e", "a", "d", "y", " ", "R", "e", "p", "o",
              "r", "t", "e", "d">>>>,
       <<226, <<"I", "M", " ", "U", "s", "e", "d">>>>,
       <<300, <<"M", "u", "l", "t", "i", "p", "l", "e", " ", "C", "h", "o",
              "i", "c", "e", "s">>>>,
       <<301, <<"M", "o", "v", "e", "d", " ", "P", "e", "r", "m", "a", "n",
              "e", "n", "t", "l", "y">>>>,
       <<302, <<"F", "o", "u", "n", "d">>>>,
       <<303, <<"S", "e", "e", " ", "O", "t", "h", "e", "r">>>>,
       <<304, <<"N", "o", "t", " ", "M", "o", "d", "i", "f", "i", "e",
              "d">>>>,
       <<305, <<"U", "s", "e", " ", "P", "r", "o", "x", "y">>>>,
       <<307, <<"T", "e", "m", "p", "o", "r", "a", "r", "y", " ", "R", "e",
              "d", "i", "r", "e", "c", "t">>>>,
       <<308, <<"P", "e", "r", "m", "a", "n", "e", "n", "t", " ", "R", "e",
              "d", "i", "r", "e", "c", "t">>>>,
       <<400, <<"B", "a", "d", " ", "R", "e", "q", "u", "e", "s", "t">>>>,
       <<401, <<"U", "n", "a", "u", "t", "h", "o", "r", "i", "z", "e",
              "d">>>>,
       <<402, <<"P", "a", "y", "m", "e", "n", "t", " ", "R", "e", "q", "u",
              "i", "r", "e", "d">>>>,
       <<403, <<"F", "o", "r", "b", "i", "d", "d", "e", "n">>>>,
       <<404, <<"N", "o", "t", " ", "F", "o", "u", "n", "d">>>>,
       <<405, <<"M", "e", "t", "h", "o", "d", " ", "N", "o", "t", " ", "A",
              "l", "l", "o", "w", "e", "d">>>>,
       <<406, <<"N", "o", "t", " ", "A", "c", "c", "e", "p", "t", "a", "b",
              "l", "e">>>>,
       <<407, <<"P", "r", "o", "x", "y", " ", "A", "u", "t", "h", "e", "n",
              "t", "i", "c", "a", "t", "i", "o", "n", " ", "R", "e", "q",
              "u", "i", "r", "e", "d">>>>,
       <<408, <<"R", "e", "q", "u", "e", "s", "t", " ", "T", "i", "m", "e",
              "o", "u", "t">>>>,
       <<409, <<"C", "o", "n", "f", "l", "i", "c", "t">>>>,
       <<410, <<"G", "o", "n", "e">>>>,
       <<411, <<"L", "e", "n", "g", "t", "h", " ", "R", "e", "q", "u", "i",
              "r", "e", "d">>>>,
       <<412, <<"P", "r", "e", "c", "o", "n", "d", "i", "t", "i", "o", "n",
              " ", "F", "a", "i", "l", "e", "d">>>>,
       <<413, <<"R", "e", "q", "u", "e", "s", "t", " ", "E", "n", "t", "i",
              "t", "y", " ", "T", "o", "o", " ", "L", "a", "r", "g", "e">>>>,
       <<414, <<"R", "e", "q", "u", "e", "s", "t", "-", "U", "R", "I", " ",
              "T", "o", "o", " ", "L", "o", "n", "g">>>>,
       <<415, <<"U", "n", "s", "u", "p", "p", "o", "r", "t", "e", "d", " ",
              "M", "e", "d", "i", "a", " ", "T", "y", "p", "e">>>>,
       <<416, <<"R", "e", "q", "u", "e", "s", "t", "e", "d", " ", "R", "a",
              "n", "g", "e", " ", "N", "o", "t", " ", "S", "a", "t", "i",
              "s", "f", "i", "a", "b", "l", "e">>>>,
       <<417, <<"E", "x", "p", "e", "c", "t", "a", "t", "i", "o", "n", " ",
              "F", "a", "i", "l", "e", "d">>>>,
       <<418, <<"I", "'", "m", " ", "a", " ", "T", "e", "a", "p", "o",
              "t">>>>,
       <<421, <<"M", "i", "s", "d", "i", "r", "e", "c", "t", "e", "d", " ",
              "R", "e", "q", "u", "e", "s", "t">>>>,
       <<422, <<"U", "n", "p", "r", "o", "c", "e", "s", "s", "a", "b", "l",
              "e", " ", "E", "n", "t", "i", "t", "y">>>>,
       <<423, <<"L", "o", "c", "k", "e", "d">>>>,
       <<424, <<"F", "a", "i", "l", "e", "d", " ", "D", "e", "p", "e", "n",
              "d", "e", "n", "c", "y">>>>,
       <<425, <<"T", "o", "o", " ", "E", "a", "r", "l", "y">>>>,
       <<426, <<"U", "p", "g", "r", "a", "d", "e", " ", "R", "e", "q", "u",
              "i", "r", "e", "d">>>>,
       <<428, <<"P", "r", "e", "c", "o", "n", "d", "i", "t", "i", "o", "n",
              " ", "R", "e", "q", "u", "i", "r", "e", "d">>>>,
       <<429, <<"T", "o", "o", " ", "M", "a", "n", "y", " ", "R", "e", "q",
              "u", "e", "s", "t", "s">>>>,
       <<431, <<"R", "e", "q", "u", "e", "s", "t", " ", "H", "e", "a", "d",
              "e", "r", " ", "F", "i", "e", "l", "d", "s", " ", "T", "o",
              "o", " ", "L", "a", "r", "g", "e">>>>,
       <<451, <<"U", "n", "a", "v", "a", "i", "l", "a", "b", "l", "e", " ",
              "F", "o", "r", " ", "L", "e", "g", "a", "l", " ", "R", "e",
              "a", "s", "o", "n", "s">>>>,
       <<500, <<"I", "n", "t", "e", "r", "n", "a", "l", " ", "S", "e", "r",
              "v", "e", "r", " ", "E", "r", "r", "o", "r">>>>,
       <<501, <<"N", "o", "t", " ", "I", "m", "p", "l", "e", "m", "e", "n",
              "t", "e", "d">>>>,
       <<502, <<"B", "a", "d", " ", "G", "a", "t", "e", "w", "a", "y">>>>,
       <<503, <<"S", "e", "r", "v", "i", "c", "e", " ", "U", "n", "a", "v",
              "a", "i", "l", "a", "b", "l", "e">>>>,
       <<504, <<"G", "a", "t", "e", "w", "a", "y", " ", "T", "i", "m", "e",
              "o", "u", "t">>>>,
       <<505, <<"H", "T", "T", "P", " ", "V", "e", "r", "s", "i", "o", "n",
              " ", "N", "o", "t", " ", "S", "u", "p", "p", "o", "r", "t",
              "e", "d">>>>,
       <<506, <<"V", "a", "r", "i", "a", "n", "t", " ", "A", "l", "s", "o",
              " ", "N", "e", "g", "o", "t", "i", "a", "t", "e", "s">>>>,
       <<507, <<"I", "n", "s", "u", "f", "f", "i", "c", "i", "e", "n", "t",
              " ", "S", "t", "o", "r", "a", "g", "e">>>>,
       <<508, <<"L", "o", "o", "p", " ", "D", "e", "t", "e", "c", "t", "e",
              "d">>>>,
       <<510, <<"N", "o", "t", " ", "E", "x", "t", "e", "n", "d", "e",
              "d">>>>,
       <<511, <<"N", "e", "t", "w", "o", "r", "k", " ", "A", "u", "t", "h",
              "e", "n", "t", "i", "c", "a", "t", "i", "o", "n", " ", "R",
              "e", "q", "u", "i", "r", "e", "d">>>>
    >>

\* http.HTTPStatus(status_code).phrase
HTTPStatus_phrase(code) ==
    IF \E i \in 1..Len(HTTPStatus) : HTTPStatus[i][1] = code
    THEN Return(PyStr(HTTPStatus[CHOOSE i \in 1..Len(HTTPStatus) :
                                    HTTPStatus[i][1] = code][2]))
    ELSE Raise("ValueError", "not a valid HTTPStatus")

\* click.style(text, fg = colour): the text between the escape sequence of
\* the colour and the reset sequence, each sequence written as one element
style(text, fg) == <<fg>> \o text \o <<"reset">>

\* AccessFormatter.status_code_colours
status_code_colours ==
    <<"bright_white", "green", "yellow", "red", "bright_red">>

\* get_status_code, coloured whatever use_colors says
get_status_code_always_coloured(code) ==
    LET found == HTTPStatus_phrase(code)
        status_phrase == IF found.kind = "raise" THEN <<>> ELSE found.val.v
        status_and_phrase == int_str(code) \o <<" ">> \o status_phrase
        class == code \div 100
    IN  Return(PyStr(IF class \in DOMAIN status_code_colours
                     THEN style(status_and_phrase, status_code_colours[class])
                     ELSE status_and_phrase))

\* AccessFormatter.get_status_code
get_status_code(code) ==
    LET found == HTTPStatus_phrase(code)
        status_phrase == IF found.kind = "raise" THEN <<>> ELSE found.val.v
        status_and_phrase == int_str(code) \o <<" ">> \o status_phrase
        class == code \div 100
    IN  Return(PyStr(IF use_colors
                     THEN IF class \in DOMAIN status_code_colours
                          THEN style(status_and_phrase,
                                     status_code_colours[class])
                          ELSE status_and_phrase
                     ELSE status_and_phrase))

-----------------------------------------------------------------------------
(* The inputs of the model. *)

b(s) == PyBytes(encode(s))

REFERER == <<"r", "e", "f", "e", "r", "e", "r">>
USER_AGENT == <<"u", "s", "e", "r", "-", "a", "g", "e", "n", "t">>

\* request header lists: none; one header; a name in upper case; the two
\* headers the registry knows; a name twice, the later value with a quote
RequestHeaderLists ==
    { <<>>,
      << <<b(<<"a">>), b(<<"x">>)>> >>,
      << <<b(<<"A">>), b(<<"x">>)>> >>,
      << <<b(REFERER), b(<<"r">>)>>, <<b(USER_AGENT), b(<<"u", "\"">>)>> >>,
      << <<b(<<"a">>), b(<<"x">>)>>, <<b(<<"a">>), b(<<"q", "\"">>)>> >> }

\* the client entry when the scope has one: None, empty, (host, port)
Clients == {None, PyTuple(<<>>), PyTuple(<<PyStr(<<"h">>), PyInt(1)>>)}

ScopeOf(headers) ==
    [method |-> PyStr(<<"G", "E", "T">>), raw_path |-> b(<<"/", "p">>),
     query_string |-> b(<<"q">>), http_version |-> PyStr(<<"1", ".", "1">>),
     headers |-> headers]

\* every header list without a client entry, every client entry with no
\* header
Scopes ==
    {ScopeOf(h) : h \in RequestHeaderLists}
    \cup {ScopeOf(<<>>) @@ [client |-> c] : c \in Clients}

Statuses == {200, 404}

\* response header lists: one header; a name in upper case; two headers,
\* one value with two quotes, the second after a backslash
ResponseHeaderLists ==
    { <<>>,
      << <<b(<<"a">>), b(<<"y">>)>> >>,
      << <<b(<<"A">>), b(<<"y">>)>> >>,
      << <<b(<<"b">>), b(<<"\"", "h", "\\", "\"">>)>>,
         <<b(<<"a">>), b(<<"y">>)>> >> }

Bodies == {<<"x">>, <<"x", "y">>}

START == "http.response.start"
BODY == "http.response.body"

Messages ==
    {[type |-> START, status |-> PyInt(st)] : st \in Statuses}
    \cup {[type |-> START, status |-> PyInt(st), headers |-> h] :
             st \in Statuses, h \in ResponseHeaderLists}
    \cup {[type |-> BODY]}
    \cup {[type |-> BODY, body |-> b(x)] : x \in Bodies}
    \cup {[type |-> "http.response.trailers"]}

\* what the system calls of a lookup give: the wall-clock time, the pid
Envs == [wall : {<<"1">>, <<"2">>}, pid : {getpid}]

\* a bracketed key
Dyn(name, suffix) == <<"{">> \o name \o <<"}", suffix>>

HeaderNames == {<<"a">>, <<"A">>, <<"b">>}

ElapsedKeys == {<<"T">>, <<"D">>, <<"L">>}

Keys ==
    {HANDLERS[i] : i \in 1..Len(HANDLERS)}
    \cup {Dyn(n, x) : n \in HeaderNames, x \in {"i", "o"}}
    \cup {Dyn(n, "e") : n \in {<<>>, <<"a">>}}
    \cup {<<>>, <<"z">>, <<"{">>, <<"{", "a", "}", "x">>, <<"a", "i">>,
          <<"}", "e">>}

-----------------------------------------------------------------------------
(* The operations. *)

Marks == {"request_started", "request_ended", "response_started",
          "response_ended"}

\* the value of the history order where the order of the marks is not
\* followed
NotFollowed == <<"not followed">>

\* the state after construction of the resolver and its timing holder
InitObjects ==
    /\ scope \in Scopes
    /\ timing = timing_init
    /\ status_code = fields_init.status_code
    /\ response_headers = fields_init.response_headers
    /\ _response_length = fields_init._response_length
    /\ _request_headers = None
    /\ clock = 0
    /\ nticks = 0
    /\ last = [op |-> "init"]
    /\ marked = [m \in Marks |-> None]
    /\ sent = 0

\* the formatter is constructed without the colour argument, the output
\* not being a terminal; the order of the marks is not followed
Init ==
    /\ InitObjects
    /\ use_colors = ColourizedFormatter_init(None, FALSE)
    /\ order = NotFollowed

\* time passes
Tick ==
    /\ nticks < MaxTicks
    /\ \E d \in ClockSteps : clock' = clock + d
    /\ nticks' = nticks + 1
    /\ UNCHANGED <<scope, timing, fields, _request_headers, last, marked, sent,
                   order, use_colors>>

\* a mark is called; before is what its accessor gave until now
Mark(op, t, before) ==
    /\ timing' = t
    /\ last' = [op |-> op, out |-> Return(None), before |-> before]
    /\ marked' = [marked EXCEPT ![op] = PyFloat(clock)]
    /\ order' = IF order = NotFollowed THEN order
                 ELSE Append(SelectSeq(order, LAMBDA m : m # op), op)
    /\ UNCHANGED <<scope, fields, _request_headers, clock, nticks, sent,
                   use_colors>>

RequestStarted ==
    Mark("request_started", request_started(timing, clock),
         request_start_time(timing))
RequestEnded ==
    Mark("request_ended", request_ended(timing, clock),
         request_end_time(timing))
ResponseStarted ==
    Mark("response_started", response_started(timing, clock),
         response_start_time(timing))
ResponseEnded ==
    Mark("response_ended", response_ended(timing, clock),
         response_end_time(timing))

\* a property read or a duration: nothing but the outcome
Read(op, out) ==
    /\ last' = [op |-> op, out |-> out]
    /\ UNCHANGED <<scope, timing, fields, _request_headers, clock, nticks,
                   marked, sent, order, use_colors>>

ReadRequestStart == Read("request_start_time", request_start_time(timing))
ReadRequestEnd == Read("request_end_time", request_end_time(timing))
ReadResponseStart == Read("response_start_time", response_start_time(timing))
ReadResponseEnd == Read("response_end_time", response_end_time(timing))
RequestDuration ==
    Read("request_duration_seconds", request_duration_seconds(timing))
ResponseDuration ==
    Read("response_duration_seconds", response_duration_seconds(timing))
TotalDuration ==
    Read("total_duration_seconds", total_duration_seconds(timing))

OnAsgiMessage ==
    \E message \in Messages :
        LET new == on_asgi_message(message)
        IN  /\ new._response_length <= MaxLength
            /\ status_code' = new.status_code
            /\ response_headers' = new.response_headers
            /\ _response_length' = new._response_length
            /\ last' = [op |-> "on_asgi_message", arg |-> message,
                        out |-> Return(None), before |-> response_headers]
            /\ sent' = sent + (IF message.type = BODY /\ "body" \in DOMAIN message
                                THEN Len(message.body.v) ELSE 0)
            /\ UNCHANGED <<scope, timing, _request_headers, clock, nticks,
                           marked, order, use_colors>>

GetItem(keys) ==
    \E key \in keys, env \in Envs :
        LET r == getitem(key, env)
        IN  /\ last' = [op |-> "getitem", arg |-> key, out |-> r.out]
            /\ _request_headers' = r.rh
            /\ UNCHANGED <<scope, timing, fields, clock, nticks, marked, sent,
                           order, use_colors>>

Lookup == GetItem(Keys)

\* list(fields): the keys yielded until the generator ends or raises
Iterate ==
    /\ last' = [op |-> "iter", yielded |-> __iter__.yielded,
                out |-> __iter__.out]
    /\ UNCHANGED <<scope, timing, fields, _request_headers, clock, nticks,
                   marked, sent, order, use_colors>>

\* len(fields)
Length == Read("len", __len__)

LookupElapsed == GetItem(ElapsedKeys)

\* one exchange seen from the resolver: response events and lookups
Next == OnAsgiMessage \/ Lookup \/ Iterate \/ Length

Spec == Init /\ [][Next]_vars

\* the timing holder: the clock, the marks, the reads, the elapsed-time keys
\* the timing holder of a request without headers, the order of the marks
\* followed
InitTiming ==
    /\ InitObjects
    /\ scope = ScopeOf(<<>>)
    /\ use_colors = ColourizedFormatter_init(None, FALSE)
    /\ order = <<>>

NextTiming ==
    \/ Tick
    \/ RequestStarted \/ RequestEnded \/ ResponseStarted \/ ResponseEnded
    \/ ReadRequestStart \/ ReadRequestEnd
    \/ ReadResponseStart \/ ReadResponseEnd
    \/ RequestDuration \/ ResponseDuration \/ TotalDuration
    \/ LookupElapsed

SpecTiming == InitTiming /\ [][NextTiming]_vars

\* The formatter alone: any status code rendered, colours on or off.
StatusCodes == (0 - 1)..MaxStatus

InitFormatter ==
    /\ InitObjects
    /\ scope = ScopeOf(<<>>)
    /\ \E use_colors_arg \in {None, PyBool(TRUE), PyBool(FALSE)},
          isatty \in BOOLEAN :
           use_colors = ColourizedFormatter_init(use_colors_arg, isatty)
    /\ order = NotFollowed

GetStatusCode ==
    \E code \in StatusCodes :
        /\ last' = [op |-> "get_status_code", arg |-> PyInt(code),
                    out |-> get_status_code(code)]
        /\ UNCHANGED <<scope, timing, fields, _request_headers, clock,
                       nticks, marked, sent, order>>
        /\ use_colors' = use_colors

NextFormatter == GetStatusCode

SpecFormatter == InitFormatter /\ [][NextFormatter]_vars

\* One exchange seen from the logger: the four marks, the response events,
\* lookups, enumeration and size in any interleaving, the clock standing
\* still.
ExchangeScope ==
    ScopeOf(<< <<b(<<"a">>), b(<<"x">>)>>, <<b(<<"a">>), b(<<"q", "\"">>)>> >>)

ExchangeKeys ==
    {<<"s">>, <<"B">>, <<"T">>, <<"t">>, <<"f">>, <<"z">>,
     Dyn(<<"a">>, "i"), Dyn(<<"b">>, "o"), Dyn(<<"a">>, "e")}

InitExchange == Init /\ scope = ExchangeScope

LookupExchange == GetItem(ExchangeKeys)

NextExchange ==
    \/ RequestStarted \/ RequestEnded \/ ResponseStarted \/ ResponseEnded
    \/ OnAsgiMessage
    \/ LookupExchange
    \/ Iterate
    \/ Length

SpecExchange == InitExchange /\ [][NextExchange]_vars

-----------------------------------------------------------------------------
(* The claims. *)

IsError(out, exc) == out.kind = "raise" /\ out.exc = exc

\* what an accessor gives when its mark was last called at reading m
AfterMark(out, m) ==
    IF m = None THEN IsError(out, "ValueError") ELSE out = Return(m)

\* C1: each of the four accessors raises ValueError exactly when its mark
\* was never called, and otherwise returns the clock reading of the most
\* recent call of its mark, whatever the other marks did.
C1_AccessorFollowsItsMark ==
    /\ AfterMark(request_start_time(timing), marked["request_started"])
    /\ AfterMark(request_end_time(timing), marked["request_ended"])
    /\ AfterMark(response_start_time(timing), marked["response_started"])
    /\ AfterMark(response_end_time(timing), marked["response_ended"])

\* request_started() was called again at a later reading: the accessor gives
\* the later reading, and an accessor whose mark was not called raises
C1_Witness ==
    /\ last.op = "request_started"
    /\ last.before = Return(PyFloat(0))
    /\ clock > 0
    /\ request_start_time(timing) = Return(PyFloat(clock))
    /\ marked["request_ended"] # None
    /\ IsError(response_end_time(timing), "ValueError")

\* what a duration gives when its marks were last called at readings s, e
AfterMarks(out, s, e) ==
    IF s = None \/ e = None THEN IsError(out, "ValueError")
    ELSE out = Return(PyFloat(e.v - s.v))

DurationOps == {"request_duration_seconds", "response_duration_seconds",
                "total_duration_seconds"}

\* the three durations against the readings of their marks
C2_Values ==
    /\ AfterMarks(request_duration_seconds(timing),
                  marked["request_started"], marked["request_ended"])
    /\ AfterMarks(response_duration_seconds(timing),
                  marked["response_started"], marked["response_ended"])
    /\ AfterMarks(total_duration_seconds(timing),
                  marked["request_started"], marked["response_ended"])
    /\ last.op = "request_duration_seconds"
           => last.out = request_duration_seconds(timing)
    /\ last.op = "response_duration_seconds"
           => last.out = response_duration_seconds(timing)
    /\ last.op = "total_duration_seconds"
           => last.out = total_duration_seconds(timing)

\* C2: each duration raises ValueError when one of its two marks was never
\* called and otherwise returns the end reading minus the start reading;
\* the step that computes a duration leaves the four timestamps as they were.
C2_DurationFollowsItsMarks ==
    /\ []C2_Values
    /\ [][last'.op \in DurationOps => timing' = timing]_vars

\* the response duration was computed as one second, the total duration
\* being longer, and the request duration cannot be computed
C2_Witness ==
    /\ last.op = "response_duration_seconds"
    /\ last.out = Return(PyFloat(TicksPerSecond))
    /\ total_duration_seconds(timing) = Return(PyFloat(TicksPerSecond + TicksPerMicro - 1))
    /\ IsError(request_duration_seconds(timing), "ValueError")

\* C4: T, D and L raise the ValueError of the timing holder as long as the
\* start of the request or the end of the response is not marked, and
\* return a text once both are.
C4_ElapsedNeedsBothMarks ==
    \A key \in ElapsedKeys, env \in Envs :
        LET out == getitem(key, env).out
        IN  /\ IF marked["request_started"] = None
                  \/ marked["response_ended"] = None
               THEN IsError(out, "ValueError")
               ELSE out.kind = "return" /\ out.val.t = "str"
            /\ last.op = "getitem" /\ last.arg = key => last.out = out

\* T was looked up with the start marked and the end not: ValueError
C4_Witness ==
    /\ last.op = "getitem"
    /\ last.arg = <<"T">>
    /\ IsError(last.out, "ValueError")
    /\ marked["request_started"] # None
    /\ marked["response_ended"] = None

\* D was looked up with both marked
C4_WitnessMarked ==
    /\ last.op = "getitem"
    /\ last.arg = <<"D">>
    /\ last.out = Return(PyStr(<<"1">>))

\* the text a lookup returns for a value
Text(chars) == Return(PyStr(chars))

Looked(key) == last.op = "getitem" /\ last.arg = key

\* C3: s gives the dash before any start-of-response event and the decimal
\* text of the status code after one.
C3_StatusOrDash ==
    Looked(<<"s">>) =>
        last.out = IF status_code = None THEN Text(DASH)
                   ELSE Text(int_str(status_code.v))

\* B and b against the bytes of all body chunks delivered
C5_Values ==
    \A env \in Envs :
        LET B == getitem(<<"B">>, env).out
            b_ == getitem(<<"b">>, env).out
        IN  /\ B = Text(int_str(sent))
            /\ b_ = IF sent = 0 THEN Text(DASH) ELSE B
            /\ Looked(<<"B">>) => last.out = B
            /\ Looked(<<"b">>) => last.out = b_

\* C5: B gives the decimal text of the bytes of all body chunks delivered so
\* far, 0 when there was none; b gives the same text, or the dash when that
\* sum is zero; the running total never decreases.
C5_BodyLength ==
    /\ []C5_Values
    /\ [][_response_length' >= _response_length]_vars

\* two chunks were delivered, of one and of one byte, and b was looked up
C5_Witness ==
    /\ Looked(<<"b">>)
    /\ last.out = Text(<<"2">>)
    /\ sent = 2

\* the names of a header list as text
NameOf(pair) == decode(pair[1].v)
ValueOf(pair) == decode(pair[2].v)

\* the text a lookup gives for a header value
Escaped(chars) == Text(replace_quote(chars))

\* C6: after a start-of-response event the header names are stored in lower
\* case, and each header it delivered is found under every key that names
\* it whatever the case of the letters.
C6_ResponseHeaderAnyCase ==
    (last.op = "on_asgi_message" /\ last.arg.type = START
     /\ "headers" \in DOMAIN last.arg) =>
        /\ \A i \in 1..Len(response_headers) :
               response_headers[i][1] = lower(response_headers[i][1])
        /\ \A i \in 1..Len(last.arg.headers), n \in HeaderNames, env \in Envs :
               lower(n) = lower(NameOf(last.arg.headers[i])) =>
                   getitem(Dyn(n, "o"), env).out
                       = Escaped(ValueOf(last.arg.headers[i]))

\* the request headers whose name is n, the case of the letters ignored
Named(headers, n) ==
    {i \in 1..Len(headers) : lower(NameOf(headers[i])) = lower(n)}

\* C7: a key of the request-header form gives the value of a request header
\* of that name, the case of the letters ignored, and the dash when there is
\* none, whatever response events were delivered.
C7_RequestHeaderAnyCase ==
    \A n \in HeaderNames :
        LET found == Named(scope.headers, n)
        IN  Looked(Dyn(n, "i")) =>
                IF found = {} THEN last.out = Text(DASH)
                ELSE \E i \in found :
                         last.out = Escaped(ValueOf(scope.headers[i]))

\* a key of the environment form
IsEnviron(key) == startswith(key, <<"{">>) /\ endswith(key, <<"}", "e">>)

\* every key of the environment form raises
C8_Raises ==
    \A key \in Keys, env \in Envs :
        IsEnviron(key) =>
            /\ IsError(getitem(key, env).out, "NotImplementedError")
            /\ Looked(key) => last.out = getitem(key, env).out

\* C8: a key of the environment form raises NotImplementedError in every
\* state, and the lookup that raised left the response state as it was.
C8_EnvironUnsupported ==
    /\ []C8_Raises
    /\ [][(last'.op = "getitem" /\ IsEnviron(last'.arg))
              => /\ IsError(last'.out, "NotImplementedError")
                 /\ fields' = fields]_vars

\* the environment form was looked up after a start event and a body chunk
C8_Witness ==
    /\ Looked(Dyn(<<"a">>, "e"))
    /\ IsError(last.out, "NotImplementedError")
    /\ status_code = PyInt(404)
    /\ Len(response_headers) = 2
    /\ _response_length = 1
    /\ scope.headers # <<>>

IsRequestForm(key) == startswith(key, <<"{">>) /\ endswith(key, <<"}", "i">>)
IsResponseForm(key) == startswith(key, <<"{">>) /\ endswith(key, <<"}", "o">>)

\* the stored response headers whose name is n, the case ignored
StoredNamed(n) ==
    {i \in 1..Len(response_headers) :
        lower(response_headers[i][1]) = lower(n)}

\* the keys whose value is missing in this state
Missing(key) ==
    \/ /\ ~in_HANDLERS(key)
       /\ ~IsEnviron(key) /\ ~IsRequestForm(key) /\ ~IsResponseForm(key)
    \/ IsRequestForm(key) /\ Named(scope.headers, slice_1_m2(key)) = {}
    \/ IsResponseForm(key) /\ StoredNamed(slice_1_m2(key)) = {}
    \/ key = <<"u">>
    \/ key = <<"f">> /\ Named(scope.headers, REFERER) = {}
    \/ key = <<"a">> /\ Named(scope.headers, USER_AGENT) = {}

HasClient ==
    /\ "client" \in DOMAIN scope
    /\ scope.client # None
    /\ scope.client.v # <<>>

\* C10: h gives the address of the client when the scope has one and the
\* dash, without raising, when the client entry is absent or empty.
C10_RemoteAddressOrDash ==
    Looked(<<"h">>) =>
        last.out = IF HasClient THEN Escaped(scope.client.v[1].v)
                   ELSE Text(DASH)

\* how many double quotes s has before position i
QuotesBefore(s, i) == Cardinality({j \in 1..(i - 1) : s[j] = "\""})

\* r is s with a backslash put before each double quote, nothing else changed
IsEscapeOf(r, s) ==
    /\ Len(r) = Len(s) + QuotesBefore(s, Len(s) + 1)
    /\ \A i \in 1..Len(s) :
           LET p == i + QuotesBefore(s, i)
           IN  IF s[i] = "\"" THEN r[p] = "\\" /\ r[p + 1] = "\""
               ELSE r[p] = s[i]

\* C11: a lookup that returns gives the dash when the value found is None,
\* and otherwise the text found with a backslash put before each double
\* quote and every other character as it was.
C11_AtomEscaped ==
    \A key \in Keys, env \in Envs :
        LET raw == retval(key, env).out
            got == getitem(key, env).out
        IN  /\ raw.kind = "return" =>
                   /\ got.kind = "return"
                   /\ got.val.t = "str"
                   /\ IF raw.val = None THEN got.val.v = DASH
                      ELSE raw.val.t = "str" /\ IsEscapeOf(got.val.v, raw.val.v)
            /\ (Looked(key) /\ key # <<"t">>) => last.out = got

\* the response header whose value has two quotes and a backslash was
\* looked up
C11_Witness ==
    /\ Looked(Dyn(<<"b">>, "o"))
    /\ last.out = Text(<<"\\", "\"", "h", "\\", "\\", "\"">>)

\* the keys that name the header n with the suffix x
KeysFor(n, x) == {lower(n) \o <<x>>, Dyn(lower(n), x), Dyn(n, x)}

\* C12: enumerating the keys completes without raising and yields the
\* registered keys in the order of the registry, then one key per request
\* header of the scope in arrival order, then one key per response header
\* recorded, none before a start event.
C12_EnumerationCompletes ==
    last.op = "iter" =>
        /\ last.out = Return(None)
        /\ Len(last.yielded)
               = Len(HANDLERS) + Len(scope.headers) + Len(response_headers)
        /\ SubSeq(last.yielded, 1, Len(HANDLERS)) = HANDLERS
        /\ \A i \in 1..Len(scope.headers) :
               last.yielded[Len(HANDLERS) + i]
                   \in KeysFor(NameOf(scope.headers[i]), "i")
        /\ \A i \in 1..Len(response_headers) :
               last.yielded[Len(HANDLERS) + Len(scope.headers) + i]
                   \in KeysFor(response_headers[i][1], "o")

\* the names recorded for the response
RecordedNames == {response_headers[i][1] : i \in 1..Len(response_headers)}

\* the size of the mapping in this state
C13_Values ==
    /\ __len__ = Return(PyInt(Len(HANDLERS) + Len(scope.headers)
                                  + Cardinality(RecordedNames)))
    /\ status_code = None
           => __len__ = Return(PyInt(Len(HANDLERS) + Len(scope.headers)))
    /\ last.op = "len" => last.out = __len__

\* C13: the size is the number of registered keys plus the number of
\* request headers of the scope plus the number of response headers
\* recorded; it changes at start-of-response events only, not at body
\* chunks, timing marks, lookups, enumeration or the size query itself.
C13_Size ==
    /\ []C13_Values
    /\ [][__len__' # __len__
              => last'.op = "on_asgi_message" /\ last'.arg.type = START]_vars

\* the size was asked with two request headers of one name and two response
\* headers recorded, a body chunk delivered and the request marked
C13_Witness ==
    /\ last.op = "len"
    /\ last.out = Return(PyInt(Len(HANDLERS) + 4))
    /\ Len(scope.headers) = 2
    /\ Len(request_headers.v) = 1
    /\ sent > 0
    /\ marked["request_started"] # None

\* the names and the headers a start event delivers
Delivered(message) ==
    {NameOf(message_get(message, "headers", <<>>)[i]) :
        i \in 1..Len(message_get(message, "headers", <<>>))}
DeliveredPairs(message) ==
    LET hs == message_get(message, "headers", <<>>)
    IN  {<<NameOf(hs[i]), ValueOf(hs[i])>> : i \in 1..Len(hs)}

\* the names recorded before the last event that the event did not deliver
\* in any case of the letters
EarlierOnly ==
    {last.before[i][1] : i \in 1..Len(last.before)}
    \ {n \in {last.before[i][1] : i \in 1..Len(last.before)} :
          \E d \in Delivered(last.arg) : lower(d) = lower(n)}

Observed ==
    [lookups |-> [key \in ExchangeKeys |->
                     getitem(key, [wall |-> <<"1">>, pid |-> getpid]).out],
     keys |-> __iter__,
     size |-> __len__]

\* C15: a lookup, whether it returns or raises, leaves the status code, the
\* response headers, the body length, the four timestamps and the scope as
\* they were and changes no later lookup, enumeration or size; a key that
\* does not read the wall clock, looked up twice in a row, gives the same
\* outcome twice.  (The cache of request headers is the one field a lookup
\* may write: where it is written, every answer is compared before and
\* after; where it is not, no field of the object has changed.)
C15_LookupIsPure ==
    /\ [][last'.op = "getitem" =>
              /\ fields' = fields
              /\ timing' = timing
              /\ scope' = scope
              /\ \/ _request_headers' = _request_headers
                 \/ Observed' = Observed
              /\ \E env \in Envs : last'.out = getitem(last'.arg, env).out]_vars
    /\ [][(last.op = "getitem" /\ last'.op = "getitem"
           /\ last'.arg = last.arg /\ last.arg # <<"t">>)
              => last'.out = last.out]_vars

\* a request header was looked up, which filled the cache, with a response
\* recorded and the request marked
C15_Witness ==
    /\ Looked(Dyn(<<"a">>, "i"))
    /\ last.out = Text(<<"q", "\\", "\"">>)
    /\ _request_headers # None
    /\ status_code # None
    /\ response_headers # <<>>
    /\ marked["request_started"] # None

\* the total duration in ticks, from the readings of the two marks
Computable ==
    marked["request_started"] # None /\ marked["response_ended"] # None
TotalTicks == marked["response_ended"].v - marked["request_started"].v

\* n is x / u, u > 0, cut towards zero
IsTruncation(n, x, u) ==
    IF x >= 0 THEN n >= 0 /\ n * u <= x /\ x < (n + 1) * u
    ELSE n <= 0 /\ n * u >= x /\ x > (n - 1) * u

Truncated(x, u) ==
    CHOOSE n \in {x \div u, (x \div u) + 1} : IsTruncation(n, x, u)

\* C16 as stated: D gives the total duration in microseconds rounded to
\* the nearest integer and T gives the floor of the total duration in
\* seconds.
C16_RoundedAndFloored ==
    Computable =>
        /\ Looked(<<"D">>) =>
               last.out = Text(int_str(round_div(TotalTicks, TicksPerMicro)))
        /\ Looked(<<"T">>) =>
               last.out = Text(int_str(TotalTicks \div TicksPerSecond))

\* C16: once the total duration is computable, D gives the decimal text of
\* the duration in microseconds cut towards zero and T the decimal text of
\* the duration in seconds cut towards zero, which is the floor whenever
\* the duration is not negative.
C16_Truncated ==
    Computable =>
        \A env \in Envs :
            LET D == getitem(<<"D">>, env).out
                T == getitem(<<"T">>, env).out
            IN  /\ D = Text(int_str(Truncated(TotalTicks, TicksPerMicro)))
                /\ T = Text(int_str(Truncated(TotalTicks, TicksPerSecond)))
                /\ TotalTicks >= 0
                       => T = Text(int_str(TotalTicks \div TicksPerSecond))
                /\ Looked(<<"D">>) => last.out = D
                /\ Looked(<<"T">>) => last.out = T

\* D was looked up for a duration of three quarters of a microsecond
C16_Witness ==
    /\ Computable
    /\ TotalTicks = TicksPerMicro - 1
    /\ Looked(<<"D">>)
    /\ last.out = Text(<<"0">>)

\* the text of a status without colour
PlainStatus(code) ==
    int_str(code) \o <<" ">>
    \o (IF HTTPStatus_phrase(code).kind = "return"
        THEN HTTPStatus_phrase(code).val.v ELSE <<>>)

\* the classes that have a colour, by their hundreds
ColouredClass(code) == {c \in 1..5 : 100 * c <= code /\ code < 100 * (c + 1)}

\* a status is rendered in the colour its class has in colours, in plain
\* text when its class has none or colours are off, and nothing is raised
RenderedWith(colours) ==
    last.op = "get_status_code" =>
        LET code == last.arg.v
        IN  IF use_colors /\ ColouredClass(code) # {}
            THEN \E c \in ColouredClass(code) :
                     last.out = Text(<<colours[c]>> \o PlainStatus(code)
                                     \o <<"reset">>)
            ELSE last.out = Text(PlainStatus(code))

\* C17 as stated: 1xx is rendered in white.
C17_AsStated ==
    RenderedWith(<<"white", "green", "yellow", "red", "bright_red">>)

\* C17: the colour of a status is that of the class status // 100, 1
\* bright white, 2 green, 3 yellow, 4 red, 5 bright red; a status outside
\* these classes, 0 and negative ones included, gives the plain text of the
\* code, a space and the phrase or nothing, without raising; with colours
\* off every status gives that plain text.
C17_StatusClassColour ==
    RenderedWith(<<"bright_white", "green", "yellow", "red", "bright_red">>)

\* 404 was rendered with colours on
C17_Witness ==
    /\ use_colors
    /\ last.op = "get_status_code"
    /\ last.arg = PyInt(404)
    /\ last.out = Text(<<"red", "4", "0", "4", " ", "N", "o", "t", " ",
                         "F", "o", "u", "n", "d", "reset">>)

\* C18: a response event of any type, in any order, returns None and
\* leaves the timestamps, the scope and the cache of request headers as
\* they were; a start event leaves the running body length as it was, a
\* body chunk leaves the status and the recorded headers as they were, and
\* an event of any other type leaves all three as they were.
C18_EventFrames ==
    [][last'.op = "on_asgi_message" =>
          /\ last'.out = Return(None)
          /\ timing' = timing
          /\ scope' = scope
          /\ _request_headers' = _request_headers
          /\ last'.arg.type = START => _response_length' = _response_length
          /\ last'.arg.type = BODY =>
                 /\ status_code' = status_code
                 /\ response_headers' = response_headers
          /\ last'.arg.type \notin {START, BODY} => fields' = fields]_vars

\* a second start event came after two bytes of body, the response marked
\* as started: the two bytes are still counted
C18_Witness ==
    /\ last.op = "on_asgi_message"
    /\ last.arg.type = START
    /\ last.before # <<>>
    /\ status_code = PyInt(404)
    /\ sent = 2
    /\ _response_length = 2
    /\ marked["response_started"] # None
    /\ response_start_time(timing) = Return(marked["response_started"])

\* C19: enumeration yields as many keys as the size reports, and each key
\* it yields for a request or response header, looked up, gives the value
\* of that header, quotes escaped.
C19_KeysResolve ==
    last.op = "iter" =>
        /\ last.out = Return(None)
        /\ Return(PyInt(Len(last.yielded))) = __len__
        /\ \A env \in Envs :
               /\ \A i \in 1..Len(scope.headers) :
                      \E j \in Named(scope.headers, NameOf(scope.headers[i])) :
                          getitem(last.yielded[Len(HANDLERS) + i], env).out
                              = Escaped(ValueOf(scope.headers[j]))
               /\ \A i \in 1..Len(response_headers) :
                      getitem(last.yielded[Len(HANDLERS) + Len(scope.headers)
                                           + i], env).out
                          = Escaped(response_headers[i][2])

\* where the latest call of mark m stands among the latest calls, 0 when
\* it was never called
Position(m) ==
    IF \E i \in 1..Len(order) : order[i] = m
    THEN CHOOSE i \in 1..Len(order) : order[i] = m
    ELSE 0

\* the start mark and the end mark of each duration
StartOf ==
    [request_duration_seconds |-> "request_started",
     response_duration_seconds |-> "response_started",
     total_duration_seconds |-> "request_started"]
EndOf ==
    [request_duration_seconds |-> "request_ended",
     response_duration_seconds |-> "response_ended",
     total_duration_seconds |-> "response_ended"]

DurationNow(d) ==
    CASE d = "request_duration_seconds" -> request_duration_seconds(timing)
      [] d = "response_duration_seconds" -> response_duration_seconds(timing)
      [] d = "total_duration_seconds" -> total_duration_seconds(timing)

NotNegative(out) == out.kind = "return" /\ out.val.t = "float" /\ out.val.v >= 0

\* the durations against the order and the readings of their latest marks
C20_Values ==
    \A d \in DurationOps :
        LET s == StartOf[d]
            e == EndOf[d]
        IN  /\ (Position(s) # 0 /\ Position(s) < Position(e)) =>
                   /\ marked[s].v <= marked[e].v
                   /\ NotNegative(DurationNow(d))
                   /\ last.op = d => NotNegative(last.out)
            /\ (marked[s] # None /\ marked[e] # None
                /\ marked[s].v <= marked[e].v) => NotNegative(DurationNow(d))

\* C20: each of the four marks can be called in every state, whatever was
\* marked before, and returns None; the clock never going back, a duration
\* is not negative whenever the latest call of its start mark came before
\* the latest call of its end mark, wherever the other marks stand.
C20_AnyOrderNotNegative ==
    /\ []C20_Values
    /\ [](ENABLED RequestStarted /\ ENABLED RequestEnded
           /\ ENABLED ResponseStarted /\ ENABLED ResponseEnded)
    /\ [](last.op \in Marks => last.out = Return(None))
    /\ [][clock' >= clock]_vars

\* the end of the request was marked before its start, the end of the
\* response last: the total duration is three quarters of a microsecond
\* though the request duration is negative
C20_Witness ==
    /\ order = <<"request_ended", "request_started", "response_ended">>
    /\ last.op = "total_duration_seconds"
    /\ last.out = Return(PyFloat(TicksPerMicro - 1))
    /\ request_duration_seconds(timing) = Return(PyFloat(1 - TicksPerMicro))

====
